---- MODULE Spec2Model ----
(***************************************************************************)
(* Model of src/plugins/quota/quota-dirsize.c: the "dirsize" quota backend *)
(* of dovecot.  Paths are C strings, modelled as sequences of one-char     *)
(* strings; the terminating NUL is the position after the last character.  *)
(***************************************************************************)
EXTENDS Integers, Sequences, FiniteSets, TLC

VARIABLES
  \* the PathSet under test and the calls made on it
  paths, added,
  \* the filesystem and the namespace configuration (the environment)
  present, fault, order, namespaces,
  \* one query: locals of dirsize_quota_get_resource and of what it calls
  pc, count_paths, root_i, stack, cur, value, error, result,
  \* what the caller passed, and a record of what the query did
  req_name, entry_value, lastcall, counted, start_present,
  ops, update_ret, first

pathVars == <<paths, added>>
envVars  == <<present, fault, order, namespaces>>
scanVars == <<pc, count_paths, root_i, stack, cur, value, error, result>>
logVars  == <<req_name, entry_value, lastcall, counted, start_present,
              ops, update_ret, first>>
vars     == <<pathVars, envVars, scanVars, logVars>>

(* ------------------------------ bounds --------------------------------- *)

\* number of quota_count_path_add calls made on one array
MaxAdds == 3

\* number of get_resource / update calls made on one quota root
MaxQueries == 3

\* number of objects (with what is below them) missing from the filesystem
\* when the quota root is first queried
MaxMissing == 1

\* number of objects the other process removes
MaxRemovals == 2

\* number of scans the other process runs beside
MaxRaceScans == 1

(* --------------------------- C string helpers -------------------------- *)

NUL == "\\0"

Min(a, b) == IF a < b THEN a ELSE b

\* s[k] of C, k counted from 0; the byte after the last character is NUL
CharAt(s, k) == IF k < Len(s) THEN s[k + 1] ELSE NUL

\* strlen(s)
StrLen(s) == Len(s)

\* strncmp(a, b, n) == 0: the first n bytes agree, a NUL ending the comparison
StrNCmpEq(a, b, n) == SubSeq(a, 1, Min(n, Len(a))) = SubSeq(b, 1, Min(n, Len(b)))

(* ------------------------------ path universe -------------------------- *)

P_root == <<"/">>
P_m    == <<"/", "m">>
P_ms   == <<"/", "m", "/">>
P_md   == <<"/", "m", "/", "d">>
P_mf   == <<"/", "m", "/", "f">>
P_mde  == <<"/", "m", "/", "d", "/", "e">>
P_mx   == <<"/", "m", "x">>
P_mxe  == <<"/", "m", "x", "/", "e">>
P_i    == <<"/", "i">>

\* the absolute path strings handed to quota_count_path_add
PathStrings == {P_root, P_m, P_ms, P_md, P_mf, P_mde, P_mx, P_mxe, P_i}

\* struct quota_count_path
CountPath(path, is_file) == [path |-> path, is_file |-> is_file]

Candidates == {CountPath(p, f) : p \in PathStrings, f \in BOOLEAN}

(* --------------------------- quota_count_path_add ---------------------- *)

\* array_delete(paths, i, 1), i counted from 0
ArrayDelete(arr, i) == SubSeq(arr, 1, i) \o SubSeq(arr, i + 2, Len(arr))

\* a slip: the index also advances after a deletion, skipping an entry
RECURSIVE AddLoopSkip(_, _, _)
AddLoopSkip(arr, i, path) ==
  IF i >= Len(arr) THEN [paths |-> arr, returned |-> FALSE]
  ELSE IF StrNCmpEq(arr[i + 1].path, path, StrLen(arr[i + 1].path))
       THEN [paths |-> arr, returned |-> TRUE]
  ELSE IF StrNCmpEq(arr[i + 1].path, path, StrLen(path))
          /\ CharAt(arr[i + 1].path, StrLen(path)) = "/"
       THEN AddLoopSkip(ArrayDelete(arr, i), i + 1, path)
  ELSE AddLoopSkip(arr, i + 1, path)

\* a slip: the "already counted" test falls through instead of returning
RECURSIVE AddLoopNoReturn(_, _, _)
AddLoopNoReturn(arr, i, path) ==
  IF i >= Len(arr) THEN [paths |-> arr, returned |-> FALSE]
  ELSE IF StrNCmpEq(arr[i + 1].path, path, StrLen(path))
          /\ CharAt(arr[i + 1].path, StrLen(path)) = "/"
       THEN AddLoopNoReturn(ArrayDelete(arr, i), i, path)
  ELSE AddLoopNoReturn(arr, i + 1, path)

\* The for loop of quota_count_path_add from index i on: the array it leaves
\* and whether it left through the early return.
RECURSIVE AddLoop(_, _, _)
AddLoop(arr, i, path) ==
  IF i >= Len(arr) THEN [paths |-> arr, returned |-> FALSE]
  ELSE IF StrNCmpEq(arr[i + 1].path, path, StrLen(arr[i + 1].path))
       THEN [paths |-> arr, returned |-> TRUE]
  ELSE IF StrNCmpEq(arr[i + 1].path, path, StrLen(path))
          /\ CharAt(arr[i + 1].path, StrLen(path)) = "/"
       THEN AddLoop(ArrayDelete(arr, i), i, path)
  ELSE AddLoop(arr, i + 1, path)

\* quota_count_path_add: the loop, then the append unless it returned early
QuotaCountPathAddRun(arr, path, is_file) ==
  LET r == AddLoop(arr, 0, path) IN
  IF r.returned THEN r
  ELSE [paths |-> Append(r.paths, CountPath(path, is_file)), returned |-> FALSE]

QuotaCountPathAdd(arr, path, is_file) == QuotaCountPathAddRun(arr, path, is_file).paths

\* a sequence of quota_count_path_add calls on an empty array
RECURSIVE AddAll(_, _)
AddAll(arr, cands) ==
  IF cands = <<>> THEN arr
  ELSE AddAll(QuotaCountPathAdd(arr, Head(cands).path, Head(cands).is_file), Tail(cands))

(* ------------------------------ the filesystem ------------------------- *)

P_mh   == <<"/", "m", "/", ".", "h">>
P_ml   == <<"/", "m", "/", "l">>
P_mdg  == <<"/", "m", "/", "d", "/", "g">>
P_mdek == <<"/", "m", "/", "d", "/", "e", "/", "k">>

\* every object the filesystem can hold, by its canonical path
Nodes == {P_m, P_mf, P_mh, P_md, P_ml, P_mdg, P_mde, P_mdek, P_i}

\* st_mode of the object itself, as lstat reports it
Kind(n) ==
  CASE n \in {P_m, P_md, P_mde} -> "dir"
    [] n = P_ml -> "link"
    [] OTHER -> "file"

\* the directory the symbolic link /m/l points to
LinkTarget == P_md

\* st_size of the object itself; the sizes are powers of three, so a total
\* tells which objects were added and how many times each
Size(n) ==
  CASE n = P_mf -> 1
    [] n = P_mh -> 3
    [] n = P_mdg -> 9
    [] n = P_mdek -> 27
    [] n = P_ml -> 81
    [] n = P_i -> 243
    [] n = P_md -> 729
    [] n = P_mde -> 2187
    [] n = P_m -> 6561

\* the names a directory holds, in the order the directory stores them
EntryNames(n) ==
  CASE n = P_m -> << <<".">>, <<"f">>, <<".", "h">>, <<".", ".">>, <<"d">>, <<"l">> >>
    [] n = P_md -> << <<".">>, <<".", ".">>, <<"g">>, <<"e">> >>
    [] n = P_mde -> << <<"k">>, <<".">>, <<".", ".">> >>
    [] OTHER -> << >>

\* dir + '/' + d_name
JoinPath(dir, name) == dir \o <<"/">> \o name

Parent(n) ==
  CASE n \in {P_mf, P_mh, P_md, P_ml} -> P_m
    [] n \in {P_mdg, P_mde} -> P_md
    [] n = P_mdek -> P_mde
    [] OTHER -> <<>>

\* a set of objects a filesystem can hold: every object's directory is there
ClosedUnderParent(S) == \A n \in S : Parent(n) = <<>> \/ Parent(n) \in S

\* the missing objects whose directory is there
TopMissing(S) == {n \in Nodes \ S : Parent(n) = <<>> \/ Parent(n) \in S}

NoFault == [op |-> "none", path |-> <<>>, errno |-> "none"]

\* the one call the filesystem refuses, if any: opendir of a directory without
\* read permission, or lstat below a directory without search permission
Faults(S) ==
  {NoFault}
  \cup {[op |-> "opendir", path |-> n, errno |-> "EACCES"] : n \in {m \in S : Kind(m) = "dir"}}
  \cup {[op |-> "lstat", path |-> n, errno |-> "EACCES"] : n \in S}

Reverse(s) == [k \in 1..Len(s) |-> s[Len(s) + 1 - k]]

RECURSIVE SelectSeqBy(_, _, _)
SelectSeqBy(s, dir, S) ==
  IF s = <<>> THEN <<>>
  ELSE IF Head(s) \in {<<".">>, <<".", ".">>} \/ JoinPath(dir, Head(s)) \in S
       THEN <<Head(s)>> \o SelectSeqBy(Tail(s), dir, S)
       ELSE SelectSeqBy(Tail(s), dir, S)

\* The path a name resolves to once the symbolic links in its directory part
\* are followed; <<>> when a link on the way is gone.
ResolveDir(path) ==
  IF Len(path) > Len(P_ml) /\ SubSeq(path, 1, Len(P_ml) + 1) = P_ml \o <<"/">>
  THEN IF P_ml \in present
       THEN LinkTarget \o SubSeq(path, Len(P_ml) + 1, Len(path))
       ELSE <<>>
  ELSE path

\* lstat(2): the object the name denotes, a symbolic link not followed
SysLstat(path) ==
  LET n == ResolveDir(path) IN
  IF fault.op = "lstat" /\ fault.path = path
  THEN [errno |-> fault.errno, kind |-> "none", size |-> 0]
  ELSE IF n \notin present
  THEN [errno |-> "ENOENT", kind |-> "none", size |-> 0]
  ELSE [errno |-> "ok", kind |-> Kind(n), size |-> Size(n)]

\* opendir(3): follows symbolic links; on success the stream of entries
SysOpendir(path) ==
  LET n == ResolveDir(path)
      t == IF n = P_ml /\ n \in present THEN LinkTarget ELSE n
      names == SelectSeqBy(EntryNames(t), t, present) IN
  IF fault.op = "opendir" /\ fault.path = path
  THEN [errno |-> fault.errno, entries |-> <<>>]
  ELSE IF t \notin present
  THEN [errno |-> "ENOENT", entries |-> <<>>]
  ELSE IF Kind(t) # "dir"
  THEN [errno |-> "ENOTDIR", entries |-> <<>>]
  ELSE [errno |-> "ok", entries |-> IF order = "rev" THEN Reverse(names) ELSE names]

(* ------------------------------ namespaces ----------------------------- *)

NoPath == <<>>

\* one mail_namespace as get_quota_root_usage sees it: the answers of
\* quota_root_is_namespace_visible, mail_storage_is_mailbox_file,
\* mailbox_list_get_root_path and mailbox_list_get_path("INBOX")
Namespace(visible, is_file, root, inbox) ==
  [visible |-> visible, is_file |-> is_file, root |-> root, inbox |-> inbox]

NamespaceConfigs ==
  { << Namespace(TRUE, TRUE, P_m, P_i) >>,
    << Namespace(TRUE, FALSE, P_m, P_md) >>,
    << Namespace(TRUE, FALSE, P_md, P_m) >>,
    << Namespace(FALSE, FALSE, P_m, P_md), Namespace(TRUE, TRUE, NoPath, P_i) >>,
    << Namespace(TRUE, FALSE, P_mde, NoPath), Namespace(TRUE, TRUE, P_md, P_mf) >> }

(* ------------------------------ the resource names --------------------- *)

\* QUOTA_NAME_STORAGE_BYTES of quota.h
QUOTA_NAME_STORAGE_BYTES ==
  <<"S", "T", "O", "R", "A", "G", "E", "_", "B", "Y", "T", "E", "S">>

N_mixed   == <<"S", "t", "o", "r", "a", "g", "e", "_", "b", "y", "t", "e", "s">>
N_storage == <<"S", "T", "O", "R", "A", "G", "E">>
N_message == <<"m", "e", "s", "s", "a", "g", "e", "-", "c", "o", "u", "n", "t">>

ResourceNames == {QUOTA_NAME_STORAGE_BYTES, N_mixed, N_storage, N_message}

\* the names among them that denote the storage-bytes resource
StorageNames == {QUOTA_NAME_STORAGE_BYTES, N_mixed}

\* what the caller's value variable holds when it calls get_resource
EntryValues == {0, 5}

\* tolower(c)
ToLower(c) ==
  CASE c = "S" -> "s" [] c = "T" -> "t" [] c = "O" -> "o" [] c = "R" -> "r"
    [] c = "A" -> "a" [] c = "G" -> "g" [] c = "E" -> "e" [] c = "B" -> "b"
    [] c = "Y" -> "y" [] OTHER -> c

\* strcmp(a, b) == 0
StrCmpEq(a, b) == a = b

\* strcasecmp(a, b) == 0
StrCaseCmpEq(a, b) ==
  /\ Len(a) = Len(b)
  /\ \A k \in 1..Len(a) : ToLower(a[k]) = ToLower(b[k])

(* ------------------------------ the scan ------------------------------- *)

NoError == [op |-> "none", path |-> <<>>, errno |-> "none"]
QUOTA_UNKNOWN_RESOURCE_ERROR == [op |-> "unknown resource", path |-> <<>>, errno |-> "none"]
NoCall == [op |-> "none", path |-> <<>>, errno |-> "none"]
None == [result |-> "none"]

\* a slip: the resource name is compared case-sensitively
ResourceMatchesExactCase(name) == StrCmpEq(name, QUOTA_NAME_STORAGE_BYTES)

\* the test of dirsize_quota_get_resource
ResourceMatches(name) == StrCaseCmpEq(name, QUOTA_NAME_STORAGE_BYTES)

\* a slip: the total is not reset, it continues from the caller's value
StartValueKept(v0) == v0

\* *value_r = 0 of get_quota_root_usage
StartValue(v0) == 0

\* a slip: a vanished object is an error like any other
BenignNever(errno) == FALSE

\* errno == ENOENT: the object is gone, which is not an error
Benign(errno) == errno = "ENOENT"

\* the test of get_dir_usage for the entries . and ..
SkipsEntry(d_name) ==
  /\ CharAt(d_name, 0) = "."
  /\ \/ CharAt(d_name, 1) = NUL
     \/ CharAt(d_name, 1) = "." /\ CharAt(d_name, 2) = NUL

\* a slip: stat instead of lstat, so a symbolic link in the last component is
\* followed and links to directories are walked
EntryStatFollowing(path) ==
  LET n == ResolveDir(path)
      t == IF n = P_ml /\ n \in present THEN LinkTarget ELSE n IN
  IF fault.op = "lstat" /\ fault.path = path
  THEN [errno |-> fault.errno, kind |-> "none", size |-> 0]
  ELSE IF t \notin present
  THEN [errno |-> "ENOENT", kind |-> "none", size |-> 0]
  ELSE [errno |-> "ok", kind |-> Kind(t), size |-> Size(t)]

\* the lstat of get_dir_usage on a directory entry
EntryStat(path) == SysLstat(path)

\* the namespace loop of get_quota_root_usage from namespace k on
RECURSIVE BuildPaths(_, _, _)
BuildPaths(nss, k, arr) ==
  IF k > Len(nss) THEN arr
  ELSE IF ~nss[k].visible THEN BuildPaths(nss, k + 1, arr)
  ELSE LET a1 == IF nss[k].root # NoPath
                 THEN QuotaCountPathAdd(arr, nss[k].root, FALSE) ELSE arr
           a2 == IF nss[k].inbox # NoPath
                 THEN QuotaCountPathAdd(a1, nss[k].inbox, nss[k].is_file) ELSE a1
       IN BuildPaths(nss, k + 1, a2)

Frame(dir, pending) == [dir |-> dir, pending |-> pending]

Outcome == [result |-> result', value |-> value', error |-> error']

\* the query returns: the first storage query's outcome is remembered
Returns ==
  /\ pc' = "ready"
  /\ stack' = <<>>
  /\ first' = IF first = None THEN Outcome ELSE first

\* a fatal error: every caller up to dirsize_quota_get_resource returns -1
Fails(op, path, errno) ==
  /\ error' = [op |-> op, path |-> path, errno |-> errno]
  /\ result' = "INTERNAL_ERROR"
  /\ Returns

\* one call of a filesystem function is recorded
Called(op, path, errno) ==
  lastcall' = [op |-> op, path |-> path, errno |-> errno]

\* dirsize_quota_get_resource up to its first filesystem call
GetResource ==
  /\ pc = "ready"
  /\ Len(ops) < MaxQueries
  /\ \E name \in ResourceNames, v0 \in EntryValues :
       /\ req_name' = name
       /\ entry_value' = v0
       /\ IF ~ResourceMatches(name)
          THEN /\ error' = QUOTA_UNKNOWN_RESOURCE_ERROR
               /\ result' = "UNKNOWN_RESOURCE"
               /\ value' = v0
               /\ pc' = "ready"
               /\ count_paths' = <<>>
          ELSE /\ error' = NoError
               /\ result' = "running"
               /\ count_paths' = BuildPaths(namespaces, 1, <<>>)
               /\ value' = StartValue(v0)
               /\ pc' = "root"
  /\ root_i' = 0
  /\ ops' = Append(ops, "get_resource")
  /\ lastcall' = NoCall
  /\ counted' = {}
  /\ start_present' = present
  /\ UNCHANGED <<stack, cur, first, update_ret>>
  /\ UNCHANGED <<pathVars, envVars>>

\* get_usage of a root that is a file
GetUsageFile ==
  /\ pc = "root"
  /\ root_i < Len(count_paths)
  /\ count_paths[root_i + 1].is_file
  /\ LET path == count_paths[root_i + 1].path
         st == SysLstat(path) IN
     /\ Called("lstat", path, st.errno)
     /\ IF st.errno = "ok"
        THEN /\ value' = value + st.size
             /\ counted' = counted \cup {path}
             /\ root_i' = root_i + 1
             /\ UNCHANGED <<pc, stack, error, result, first>>
        ELSE IF Benign(st.errno)
        THEN /\ root_i' = root_i + 1
             /\ UNCHANGED <<pc, stack, error, result, first, value, counted>>
        ELSE /\ UNCHANGED <<root_i, value, counted>>
             /\ Fails("lstat", path, st.errno)
  /\ UNCHANGED <<count_paths, cur, req_name, entry_value, start_present, ops, update_ret>>
  /\ UNCHANGED <<pathVars, envVars>>

\* the opendir of get_dir_usage(dir): the stream is opened, or the call
\* returns 0 to its caller, or it fails
OpendirOf(dir, back) ==
  LET d == SysOpendir(dir) IN
  /\ Called("opendir", dir, d.errno)
  /\ UNCHANGED <<count_paths, cur, value, counted>>
  /\ IF d.errno = "ok"
     THEN /\ stack' = Append(stack, Frame(dir, d.entries))
          /\ pc' = "readdir"
          /\ UNCHANGED <<root_i, error, result, first>>
     ELSE IF Benign(d.errno)
     THEN /\ pc' = back
          /\ root_i' = IF back = "root" THEN root_i + 1 ELSE root_i
          /\ UNCHANGED <<stack, error, result, first>>
     ELSE /\ Fails("opendir", dir, d.errno)
          /\ UNCHANGED root_i
  /\ UNCHANGED <<req_name, entry_value, start_present, ops, update_ret>>
  /\ UNCHANGED <<pathVars, envVars>>

\* get_usage of a root that is a directory: get_dir_usage(path)
GetUsageDir ==
  /\ pc = "root"
  /\ root_i < Len(count_paths)
  /\ ~count_paths[root_i + 1].is_file
  /\ OpendirOf(count_paths[root_i + 1].path, "root")

\* the recursive get_dir_usage(str_c(path)) on an entry that is a directory
GetDirUsage ==
  /\ pc = "opendir"
  /\ OpendirOf(cur, "readdir")

\* one readdir of the innermost open directory.  An entry removed since the
\* stream was opened may or may not be returned.
Readdir ==
  /\ pc = "readdir"
  /\ LET top == stack[Len(stack)] IN
     IF top.pending = <<>>
     THEN \* NULL: closedir and return 0 to the caller
          /\ stack' = SubSeq(stack, 1, Len(stack) - 1)
          /\ pc' = IF Len(stack) = 1 THEN "root" ELSE "readdir"
          /\ root_i' = IF Len(stack) = 1 THEN root_i + 1 ELSE root_i
          /\ Called("readdir", top.dir, "end")
          /\ UNCHANGED cur
     ELSE LET d_name == Head(top.pending)
              gone == /\ ~SkipsEntry(d_name)
                      /\ ResolveDir(JoinPath(top.dir, d_name)) \notin present IN
          \E returned \in (IF gone THEN BOOLEAN ELSE {TRUE}) :
            /\ stack' = [stack EXCEPT ![Len(stack)].pending = Tail(top.pending)]
            /\ Called("readdir", top.dir, "ok")
            /\ root_i' = root_i
            /\ IF ~returned \/ SkipsEntry(d_name)
               THEN UNCHANGED <<pc, cur>>
               ELSE /\ cur' = JoinPath(top.dir, d_name)
                    /\ pc' = "lstat"
  /\ UNCHANGED <<count_paths, value, error, result, counted, first>>
  /\ UNCHANGED <<req_name, entry_value, start_present, ops, update_ret>>
  /\ UNCHANGED <<pathVars, envVars>>

\* the lstat of the entry just read and what follows from it
LstatEntry ==
  /\ pc = "lstat"
  /\ LET st == EntryStat(cur)
         dir == stack[Len(stack)].dir IN
     /\ Called("lstat", cur, st.errno)
     /\ IF st.errno # "ok"
        THEN IF Benign(st.errno)
             THEN /\ pc' = "readdir"
                  /\ UNCHANGED <<stack, error, result, first, value, counted>>
             ELSE /\ UNCHANGED <<value, counted>>
                  /\ Fails("lstat", dir, st.errno)
        ELSE IF st.kind = "dir"
        THEN /\ pc' = "opendir"
             /\ UNCHANGED <<stack, error, result, first, value, counted>>
        ELSE /\ value' = value + st.size
             /\ counted' = counted \cup {cur}
             /\ pc' = "readdir"
             /\ UNCHANGED <<stack, error, result, first>>
  /\ UNCHANGED <<count_paths, root_i, cur>>
  /\ UNCHANGED <<req_name, entry_value, start_present, ops, update_ret>>
  /\ UNCHANGED <<pathVars, envVars>>

\* every root is summed: get_quota_root_usage returns 0
Finish ==
  /\ pc = "root"
  /\ root_i >= Len(count_paths)
  /\ result' = "LIMITED"
  /\ UNCHANGED <<error, value>>
  /\ Returns
  /\ UNCHANGED <<count_paths, root_i, cur, counted>>
  /\ UNCHANGED <<req_name, entry_value, lastcall, start_present, ops, update_ret>>
  /\ UNCHANGED <<pathVars, envVars>>

\* dirsize_quota_update: returns 0
Update ==
  /\ pc = "ready"
  /\ Len(ops) < MaxQueries
  /\ ops' = Append(ops, "update")
  /\ update_ret' = 0
  /\ UNCHANGED <<req_name, entry_value, lastcall, counted, start_present, first>>
  /\ UNCHANGED <<pathVars, envVars, scanVars>>

\* another process removes a file, a link or an empty directory
Remove ==
  /\ Cardinality(Nodes \ present) < MaxRemovals
  /\ \E n \in present :
       /\ ~\E c \in present : Parent(c) = n
       /\ present' = present \ {n}
  /\ UNCHANGED <<fault, order, namespaces>>
  /\ UNCHANGED <<pathVars, scanVars, logVars>>

(* ------------------------------ specifications ------------------------- *)

IdleEnv ==
  /\ present = Nodes
  /\ fault = NoFault
  /\ order = "fwd"
  /\ namespaces = <<>>

IdleScan ==
  /\ pc = "ready"
  /\ count_paths = <<>>
  /\ root_i = 0
  /\ stack = <<>>
  /\ cur = <<>>
  /\ value = 0
  /\ error = NoError
  /\ result = "none"
  /\ req_name = <<>>
  /\ entry_value = 0
  /\ lastcall = NoCall
  /\ counted = {}
  /\ start_present = {}
  /\ ops = <<>>
  /\ update_ret = "none"
  /\ first = None

PathInit ==
  /\ paths = <<>>
  /\ added = <<>>
  /\ IdleEnv
  /\ IdleScan

AddPath ==
  /\ Len(added) < MaxAdds
  /\ \E c \in Candidates :
       /\ paths' = QuotaCountPathAdd(paths, c.path, c.is_file)
       /\ added' = Append(added, c)
  /\ UNCHANGED <<envVars, scanVars, logVars>>

PathNext == AddPath

\* calls of quota_count_path_add on one array
SpecPaths == PathInit /\ [][PathNext]_vars

ScanInit ==
  /\ paths = <<>>
  /\ added = <<>>
  /\ present \in {S \in SUBSET Nodes :
                    ClosedUnderParent(S) /\ Cardinality(TopMissing(S)) <= MaxMissing}
  /\ fault \in Faults(present)
  /\ order \in {"fwd", "rev"}
  /\ namespaces \in NamespaceConfigs
  /\ IdleScan

ScanNext ==
  \/ GetResource
  \/ GetUsageFile
  \/ GetUsageDir
  \/ GetDirUsage
  \/ Readdir
  \/ LstatEntry
  \/ Finish
  \/ Update

\* queries and updates on a filesystem nobody else changes
SpecScan == ScanInit /\ [][ScanNext]_vars

\* the trees a racing scan starts on: the full one, and two small ones that
\* the other process can empty down to a root
RaceTrees == {Nodes, {P_m, P_mf, P_i}, {P_m, P_md, P_mde}}

RaceInit ==
  /\ paths = <<>>
  /\ added = <<>>
  /\ present \in RaceTrees
  /\ fault = NoFault
  /\ order \in {"fwd", "rev"}
  /\ namespaces \in NamespaceConfigs
  /\ IdleScan

\* a query for the storage resource, which starts a scan
StorageQuery ==
  /\ Len(ops) < MaxRaceScans
  /\ GetResource
  /\ req_name' \in StorageNames

RaceNext ==
  \/ StorageQuery
  \/ GetUsageFile
  \/ GetUsageDir
  \/ GetDirUsage
  \/ Readdir
  \/ LstatEntry
  \/ Finish
  \/ Remove

\* queries interleaved with another process that removes objects
SpecRace == RaceInit /\ [][RaceNext]_vars

(* ------------------------ properties of the PathSet -------------------- *)

\* a is a proper string prefix of b
ProperPrefix(a, b) == Len(a) < Len(b) /\ SubSeq(b, 1, Len(a)) = a

\* a is a directory-ancestor of b: b = a + "/" + rest with rest non-empty,
\* or a itself ends in "/" and b = a + rest
DirAncestor(a, b) ==
  /\ ProperPrefix(a, b)
  /\ \/ b[Len(a) + 1] = "/" /\ Len(b) > Len(a) + 1
     \/ a[Len(a)] = "/"

PathsOf(arr) == {arr[k].path : k \in 1..Len(arr)}
ContentsOf(arr) == {arr[k] : k \in 1..Len(arr)}

\* the candidate paths are pairwise distinct
DistinctPaths(cands) ==
  \A j, k \in 1..Len(cands) : j # k => cands[j].path # cands[k].path

\* the prefix-boundary caveat does not arise among the candidates
CaveatFree(cands) ==
  \A a, b \in PathsOf(cands) : ProperPrefix(a, b) => b[Len(a) + 1] = "/"

\* candidates with the same path carry the same is_file
FlagConsistent(cands) ==
  \A j, k \in 1..Len(cands) :
     cands[j].path = cands[k].path => cands[j].is_file = cands[k].is_file

Perms(n) == {f \in [1..n -> 1..n] : \A j, k \in 1..n : j # k => f[j] # f[k]}
Permuted(cands, f) == [k \in 1..Len(cands) |-> cands[f[k]]]

\* C1 (as claimed): no two distinct positions of the set hold paths A and B
\* with A equal to B or A a directory-ancestor of B.
C1_NoOverlap ==
  \A j, k \in 1..Len(paths) :
     j # k => /\ paths[j].path # paths[k].path
              /\ ~DirAncestor(paths[j].path, paths[k].path)

\* C2 (as claimed): for pairwise distinct candidates without the
\* prefix-boundary caveat, the set holds exactly the candidates that have no
\* other candidate as a directory-ancestor, each once.
C2_MinimalCoverByAncestor ==
  (DistinctPaths(added) /\ CaveatFree(added)) =>
     /\ PathsOf(paths) =
          {p \in PathsOf(added) : ~\E o \in PathsOf(added) : DirAncestor(o, p)}
     /\ Cardinality(PathsOf(paths)) = Len(paths)

\* C2 (amended): for pairwise distinct candidates without the prefix-boundary
\* caveat, the set holds exactly the candidates that have no other candidate
\* as a proper string prefix, each once; so /a and /a/b leave only /a.
C2_MinimalCoverByPrefix ==
  (DistinctPaths(added) /\ CaveatFree(added)) =>
     /\ PathsOf(paths) =
          {p \in PathsOf(added) : ~\E o \in PathsOf(added) : ProperPrefix(o, p)}
     /\ Cardinality(PathsOf(paths)) = Len(paths)

\* a nested candidate was added before its ancestor and then deleted by it
C2_Witness ==
  /\ DistinctPaths(added) /\ CaveatFree(added)
  /\ Len(added) = 3
  /\ added[1].path = P_md /\ added[2].path = P_mf /\ added[3].path = P_m
  /\ PathsOf(paths) = {P_m}

\* C3 (as claimed): without the prefix-boundary caveat, every permutation of
\* the calls leaves the same set of {path, is_file} entries.
C3_OrderIndependentEntries ==
  CaveatFree(added) =>
     \A f \in Perms(Len(added)) :
        ContentsOf(AddAll(<<>>, Permuted(added, f))) = ContentsOf(paths)

\* C3 (amended): without the prefix-boundary caveat, every permutation of the
\* calls leaves the same set of paths, and the same {path, is_file} entries
\* when candidates with equal paths carry equal is_file.
C3_OrderIndependentPaths ==
  CaveatFree(added) =>
     \A f \in Perms(Len(added)) :
        LET other == AddAll(<<>>, Permuted(added, f)) IN
        /\ PathsOf(other) = PathsOf(paths)
        /\ FlagConsistent(added) => ContentsOf(other) = ContentsOf(paths)

\* three calls, one of them subsuming an earlier one, whose reversal leaves
\* the same entries through a different course (a discard, not a deletion)
C3_Witness ==
  /\ CaveatFree(added) /\ FlagConsistent(added)
  /\ Len(added) = 3 /\ Len(paths) = 2
  /\ added[1].path = P_mde /\ added[2].path = P_i /\ added[3].path = P_md
  /\ AddAll(<<>>, Permuted(added, [k \in 1..3 |-> 4 - k])) # paths

\* C10 (as claimed): a call that ends by discarding its candidate leaves the
\* array exactly as it was.
C10_DiscardChangesNothing ==
  [][(Len(added') = Len(added) + 1
      /\ QuotaCountPathAddRun(paths, added'[Len(added')].path,
                              added'[Len(added')].is_file).returned)
     => paths' = paths]_vars

(* ------------------------ properties of the scan ----------------------- *)

LastOp == IF ops = <<>> THEN "none" ELSE ops[Len(ops)]

RECURSIVE SumSizes(_)
SumSizes(S) ==
  IF S = {} THEN 0
  ELSE LET n == CHOOSE m \in S : TRUE IN Size(n) + SumSizes(S \ {n})

\* n lies under the directory d, at any depth
Under(d, n) == ProperPrefix(d, n) /\ n[Len(d) + 1] = "/"

\* the objects of S a scan of the root r has to add: the root itself when it
\* is a file, else everything under it that is not a directory
RootObjects(S, r) ==
  IF r.is_file THEN {n \in S : n = r.path}
  ELSE {n \in S : Under(r.path, n) /\ Kind(n) # "dir"}

ScanObjects(S) == UNION {RootObjects(S, count_paths[k]) : k \in 1..Len(count_paths)}

Fatal(errno) == errno \notin {"none", "ok", "end", "ENOENT"}

\* C4: on an unchanging tree where no call fails, a finished scan has added
\* exactly the lstat sizes of the objects under its roots that are not
\* directories, each once: a link counts as itself, . and .. do not count.
C4_DirUsageIsSumOfEntries ==
  (pc = "ready" /\ result = "LIMITED") =>
     /\ value = SumSizes(ScanObjects(present))
     /\ counted = ScanObjects(present)

\* the whole tree under /m was walked, back to front: the hidden file, the
\* link to /m/d and the two levels of subdirectories are in the total
C4_Witness ==
  /\ pc = "ready" /\ result = "LIMITED"
  /\ present = Nodes /\ order = "rev"
  /\ PathsOf(count_paths) = {P_m}
  /\ value = 1 + 3 + 9 + 27 + 81

\* C5: while another process removes objects, a scan never ends in a fatal
\* error and can always take its next step; what is gone when opened or
\* stat'd adds nothing, and the total never exceeds the sizes that were
\* under the roots when the scan began.
C5_RemovalTolerated ==
  /\ result # "INTERNAL_ERROR"
  /\ pc # "ready" =>
       ENABLED (GetUsageFile \/ GetUsageDir \/ GetDirUsage \/ Readdir
                  \/ LstatEntry \/ Finish)
  /\ result \in {"running", "LIMITED"} =>
       /\ value = SumSizes(counted)
       /\ counted \subseteq ScanObjects(start_present)
       /\ value <= SumSizes(ScanObjects(start_present))
       /\ lastcall.errno = "ENOENT" => lastcall.path \notin counted

\* the directory /m/d/e was emptied and removed between its lstat and its
\* opendir, in a scan that began on the full tree
C5_Witness ==
  /\ start_present = Nodes
  /\ result = "running"
  /\ pc = "readdir"
  /\ lastcall = [op |-> "opendir", path |-> P_mde, errno |-> "ENOENT"]
  /\ P_mdg \in counted

\* C6 (as claimed): a failing opendir or lstat ends the scan at once with
\* the internal-error result, and the caller's value does not hold the
\* bytes added before the failure.
C6_NoPartialTotal ==
  Fatal(lastcall.errno) =>
     /\ pc = "ready"
     /\ result = "INTERNAL_ERROR"
     /\ counted # {} => value # SumSizes(counted)

\* the part of C6 the code keeps: the failing call is the last call of the
\* scan, which returns the internal-error result
C6_StopsAtFirstFailure ==
  Fatal(lastcall.errno) => (pc = "ready" /\ result = "INTERNAL_ERROR")

\* C7 (as claimed): a fatal error names the operation that failed and the
\* path that operation was applied to.
C7_ErrorNamesFailingObject ==
  error.op \in {"opendir", "lstat"} =>
     /\ error.op = lastcall.op
     /\ error.path = lastcall.path

\* C8: a scan runs exactly for the names that equal the storage-bytes name
\* up to case; any other name gets the unknown-resource result with no
\* filesystem call made and the caller's value untouched; a matching name
\* ends in the limited or the internal-error result.
C8_Dispatch ==
  req_name # <<>> =>
     IF req_name \in StorageNames
     THEN /\ result \in {"running", "LIMITED", "INTERNAL_ERROR"}
          /\ pc = "ready" => /\ result \in {"LIMITED", "INTERNAL_ERROR"}
                             /\ lastcall # NoCall
     ELSE /\ pc = "ready"
          /\ result = "UNKNOWN_RESOURCE"
          /\ lastcall = NoCall
          /\ value = entry_value

\* after a storage query given in mixed case that walked the tree, a query
\* for "message-count" was refused and left the caller's 5 in place
C8_Witness ==
  /\ first # None /\ first.result = "LIMITED" /\ first.value > 0
  /\ req_name = N_message
  /\ result = "UNKNOWN_RESOURCE"
  /\ value = 5

\* C9: on an unchanged filesystem every storage query returns the result,
\* value and error of the first one, whatever queries and updates came
\* before and whatever the caller's variable held; update returns 0.
C9_NoStateBetweenQueries ==
  /\ (pc = "ready" /\ LastOp = "get_resource" /\ req_name \in StorageNames) =>
        [result |-> result, value |-> value, error |-> error] = first
  /\ LastOp = "update" => update_ret = 0

\* a storage query, an update, then a storage query entered with 5 in the
\* caller's variable, on a tree with something to count
C9_Witness ==
  /\ ops = <<"get_resource", "update", "get_resource">>
  /\ pc = "ready"
  /\ req_name \in StorageNames
  /\ entry_value = 5
  /\ first.result = "LIMITED"
  /\ value > 0

====
